---- MODULE Spec2Model ----
(***************************************************************************)
(* A model of the QCity runner-manifest generator                          *)
(* (deploy/qcity/generate_runner_manifest.py) and of the two documentation *)
(* accessor stubs (sanitized/qmoi_avatars.py, sanitized/qmoi_doit.py).     *)
(*                                                                         *)
(* Strings are sequences of atoms.  An atom is a TLA+ string standing for  *)
(* a run of characters that the model never looks inside: a single         *)
(* character in a --tags argument and in the documentation file, a word in *)
(* a file name or a file text.  The word atoms are chosen so that a        *)
(* keyword of CAPABILITY_MAP occurs in a text exactly when one atom,       *)
(* case-folded, is that keyword.                                           *)
(***************************************************************************)
EXTENDS Integers, Sequences, FiniteSets

\* ------------------------------------------------------------------ bounds

\* Invocations of main in one behaviour.
MaxRuns == 2
\* The wall clock reads 0..MaxClock.
MaxClock == 1
\* Times the wall clock is set back in one behaviour.
MaxSetBacks == 1
\* Length of a --tags argument, in characters.
MaxTagLen == 5
\* Length of the documentation file, in characters.
MaxDocLen == 2

\* ----------------------------------------------------------------- helpers

Range(s) == {s[i] : i \in 1..Len(s)}

\* All sequences over S of length at most n.
SeqsUpTo(S, n) == UNION {[1..k -> S] : k \in 0..n}

\* All orderings of the finite set S, as sequences without repetition.
Orderings(S) ==
    {s \in [1..Cardinality(S) -> S] : \A i, j \in DOMAIN s : i # j => s[i] # s[j]}

\* ------------------------------------------------- the static pattern table

\* Each row is a compiled expression and its label.  An expression is a set
\* of alternatives (the |), an alternative a sequence of keywords joined by
\* ".*": <<"build", "platform">> is build.*platform.
CAPABILITY_MAP ==
    << [alts |-> {<<"build">>}, cap |-> "build"],
       [alts |-> {<<"build", "platform">>, <<"buildappsforallplatforms">>},
        cap |-> "build-all-platforms"],
       [alts |-> {<<"qcity">>}, cap |-> "qcity"],
       [alts |-> {<<"runner">>, <<"runners">>, <<"runnersengine">>},
        cap |-> "runner-engine"],
       [alts |-> {<<"android">>, <<"apk">>, <<"play">>}, cap |-> "android-build"],
       [alts |-> {<<"ios">>, <<"ipa">>, <<"xcode">>}, cap |-> "ios-build"],
       [alts |-> {<<"mac">>, <<"dmg">>, <<"pkg">>}, cap |-> "macos-build"],
       [alts |-> {<<"windows">>, <<"nsis">>, <<"exe">>}, cap |-> "windows-build"],
       [alts |-> {<<"linux">>, <<"deb">>, <<"appimage">>}, cap |-> "linux-build"],
       [alts |-> {<<"electron">>}, cap |-> "electron-build"],
       [alts |-> {<<"video">>, <<"media">>}, cap |-> "media-processing"],
       [alts |-> {<<"gpu">>, <<"cuda">>}, cap |-> "gpu"] >>

Labels == {CAPABILITY_MAP[i].cap : i \in DOMAIN CAPABILITY_MAP}

\* re.I: the atom with its letters case-folded.
Fold(a) ==
    CASE a = "GPU" -> "gpu"
      [] a = "Build" -> "build"
      [] a = "QCity" -> "qcity"
      [] OTHER -> a

RECURSIVE MatchAt(_, _, _, _)
\* The k-th keyword of the alternative is at hay[i] and the later ones follow
\* on the same line: "." matches no line break.
MatchAt(alt, k, hay, i) ==
    /\ Fold(hay[i]) = alt[k]
    /\ \/ k = Len(alt)
       \/ \E j \in (i + 1)..Len(hay) :
              /\ \A m \in i..j : hay[m] # "\n"
              /\ MatchAt(alt, k + 1, hay, j)

\* pattern.search(hay) for one alternative: a match starts somewhere.
SearchAlt(alt, hay) == \E i \in 1..Len(hay) : MatchAt(alt, 1, hay, i)

\* pattern.search(hay) for a row of the table.
Search(row, hay) == \E alt \in row.alts : SearchAlt(alt, hay)

\* ------------------------------------------------------------- the scanner

\* A file under the root: its name, the first 4000 characters of its text
\* (head), the rest of its text (tail), and whether read_text succeeds on it.

\* p.read_text(encoding='utf-8', errors='ignore'): the text, or a raise.
ReadTextIgnore(f) ==
    IF f.ok THEN [raised |-> FALSE, text |-> [head |-> f.head, tail |-> f.tail]]
            ELSE [raised |-> TRUE, text |-> [head |-> <<>>, tail |-> <<>>]]

\* text[:4000]
TextPrefix(text) == text.head

\* name + "\n" + text[:4000]
Hay(name, text) == name \o <<"\n">> \o TextPrefix(text)

\* The rows searched for in the text alone, the name left out of hay.
FileCapsTextOnly(f) ==
    {CAPABILITY_MAP[i].cap :
        i \in {j \in DOMAIN CAPABILITY_MAP :
                  Search(CAPABILITY_MAP[j], TextPrefix(ReadTextIgnore(f).text))}}

\* Lines 45-54 for a file that was read: the labels of the rows whose
\* expression is found in hay.
FileCaps(f) ==
    {CAPABILITY_MAP[i].cap :
        i \in {j \in DOMAIN CAPABILITY_MAP :
                  Search(CAPABILITY_MAP[j], Hay(f.name, ReadTextIgnore(f).text))}}

\* Python's order of str, on the labels of the table (by code point: "-"
\* sorts before every letter, and a proper prefix before its extensions).
StrOrder ==
    << "android-build", "build", "build-all-platforms", "electron-build", "gpu",
       "ios-build", "linux-build", "macos-build", "media-processing", "qcity",
       "runner-engine", "windows-build" >>

StrRank(s) == CHOOSE i \in DOMAIN StrOrder : StrOrder[i] = s

StrLess(a, b) == StrRank(a) < StrRank(b)

RECURSIVE SortedDesc(_)
SortedDesc(S) ==
    IF S = {} THEN <<>>
    ELSE LET m == CHOOSE x \in S : \A y \in S \ {x} : StrLess(y, x)
         IN  <<m>> \o SortedDesc(S \ {m})

\* sorted(caps)
RECURSIVE sorted(_)
sorted(S) ==
    IF S = {} THEN <<>>
    ELSE LET m == CHOOSE x \in S : \A y \in S \ {x} : StrLess(x, y)
         IN  <<m>> \o sorted(S \ {m})

RECURSIVE DetectLoop(_, _, _)
RECURSIVE OnReadError(_, _, _)

\* A read failure that is not handled: the exception leaves the function.
OnReadErrorRaise(files, i, caps) == [raised |-> TRUE, caps |-> <<>>]

\* A read failure that ends the loop: break where the code has continue.
OnReadErrorBreak(files, i, caps) == [raised |-> FALSE, caps |-> sorted(caps)]

\* except Exception: continue
OnReadError(files, i, caps) == DetectLoop(files, i + 1, caps)

\* for p in files: ... , from the i-th file on, caps being the set so far.
DetectLoop(files, i, caps) ==
    IF i > Len(files) THEN [raised |-> FALSE, caps |-> sorted(caps)]
    ELSE IF ReadTextIgnore(files[i]).raised THEN OnReadError(files, i, caps)
    ELSE DetectLoop(files, i + 1, caps \cup FileCaps(files[i]))

\* detect_capabilities(files): [raised, caps]; caps is the returned list.
detect_capabilities(files) == DetectLoop(files, 1, {})

\* --------------------------------------------------------------- the tags

\* str.strip() removes these from both ends.
Whitespace == {" ", "\t"}

RECURSIVE SplitComma(_)
\* s.split(','): the pieces between the commas, one more than the commas.
SplitComma(s) ==
    IF \A i \in 1..Len(s) : s[i] # "," THEN <<s>>
    ELSE LET i == CHOOSE k \in 1..Len(s) : s[k] = "," /\ \A j \in 1..(k - 1) : s[j] # ","
         IN  <<SubSeq(s, 1, i - 1)>> \o SplitComma(SubSeq(s, i + 1, Len(s)))

RECURSIVE LStrip(_)
LStrip(t) == IF t # <<>> /\ Head(t) \in Whitespace THEN LStrip(Tail(t)) ELSE t

RECURSIVE RStrip(_)
RStrip(t) ==
    IF t # <<>> /\ t[Len(t)] \in Whitespace THEN RStrip(SubSeq(t, 1, Len(t) - 1)) ELSE t

\* An entry kept as it stands between the commas.
StripNothing(t) == t

\* t.strip()
Strip(t) == RStrip(LStrip(t))

RECURSIVE TagList(_)
\* [t.strip() for t in pieces if t.strip()]
TagList(pieces) ==
    IF pieces = <<>> THEN <<>>
    ELSE IF Strip(Head(pieces)) # <<>>
         THEN <<Strip(Head(pieces))>> \o TagList(Tail(pieces))
         ELSE TagList(Tail(pieces))

\* tags = [t.strip() for t in args.tags.split(',') if t.strip()]
ParseTags(s) == TagList(SplitComma(s))

\* ----------------------------------------------------------- the manifest

\* argparse's default for --runner-id.
NoneVal == <<"None">>

\* socket.gethostname()
HostName == <<"host">>

NoManifest ==
    [runner_id |-> <<>>, hostname |-> <<>>, capabilities |-> <<>>, tags |-> <<>>,
     generated_at |-> -1]

\* caps or []
OrEmpty(caps) == IF caps = <<>> THEN <<>> ELSE caps

\* build_manifest(runner_id, tags=tags, caps=caps) at wall-clock reading now.
build_manifest(runner_id, tags, caps, now) ==
    [runner_id |-> runner_id, hostname |-> HostName, capabilities |-> OrEmpty(caps),
     tags |-> tags, generated_at |-> now]

\* args.runner_id or f"{socket.gethostname()}"
RunnerIdOrHost(rid) == IF rid = NoneVal \/ rid = <<>> THEN HostName ELSE rid

\* json.dumps(manifest, indent=2): the document, one key to a line.
Dumps(m) == [json |-> m]

RECURSIVE Flatten(_)
Flatten(ss) == IF ss = <<>> THEN <<>> ELSE Head(ss) \o <<"\n">> \o Flatten(Tail(ss))

\* The text of a dumped manifest, as word atoms.
DumpText(d) ==
    <<"runner", "_id">> \o d.json.runner_id \o <<"\n", "hostname">> \o d.json.hostname
        \o <<"\n", "capabilities", "\n">> \o d.json.capabilities
        \o <<"\n", "tags", "\n">> \o Flatten(d.json.tags) \o <<"generated_at">>

\* Path.write_text(data) on a file holding old: the file is truncated first.
WriteTextAppending(old, data) == Append(old, data)

WriteText(old, data) == <<data>>

\* ------------------------------------------------------------------ state

VARIABLES
    rootState,      \* "ok": --root names a directory; "missing": it names nothing
    docs,           \* the markdown and YAML files under the root
    qmoiDir,        \* whether <root>/.qmoi exists
    manifestFile,   \* <root>/.qmoi/runner_manifest.json: [exists, data]
    clock,          \* what time.time() reads, in seconds
    setBacks,       \* how often the wall clock has been set back
    pc,             \* where main is: idle, scan, detect, build, output, done, failed
    args,           \* the parsed command line of the running invocation
    files,          \* main's files
    caps,           \* main's caps
    manifest,       \* main's manifest
    stdout,         \* what the running invocation has printed
    runs,           \* invocations started
    startFs,        \* the file system as the running invocation found it
    prevFile,       \* manifestFile before the running invocation wrote it
    stampSetBacks,  \* setBacks when manifest was stamped
    fileSetBacks,   \* setBacks when the manifest in manifestFile was stamped
    prevSetBacks,   \* setBacks when the manifest in prevFile was stamped
    firstCaps,      \* the caps of the first invocation that got so far
    docFile,        \* docs/converted/qmoi_doctexts.md: [exists, text]
    notesPc,        \* per stub, where get_notes is: idle, checked, returned, raised
    notesResult,    \* per stub, what get_notes returned
    notesRead       \* per stub, docFile as read_text found it

genVars ==
    <<rootState, docs, qmoiDir, manifestFile, clock, setBacks, pc, args, files, caps,
      manifest, stdout, runs, startFs, prevFile, stampSetBacks, fileSetBacks,
      prevSetBacks, firstCaps>>

notesVars == <<docFile, notesPc, notesResult, notesRead>>

vars == <<genVars, notesVars>>

\* ------------------------------------------------------- the files scanned

AndroidBuildMd == <<"android", "-", "build", ".md">>
NotesMd == <<"notes", ".md">>
CiYaml == <<"ci", ".yaml">>
ManifestName == <<"runner", "_", "manifest", ".json">>

File(name, head, tail, ok) == [name |-> name, head |-> head, tail |-> tail, ok |-> ok]

\* What each documentation file may be: unreadable, or readable with a text.
\* "Build all platform" on one line; "build" and "platform" on two lines with
\* "QCity" beyond the 4000th character; "GPU"; nothing.
DocChoices(name) ==
    CASE name = AndroidBuildMd ->
           {File(name, <<>>, <<>>, FALSE), File(name, <<>>, <<>>, TRUE),
            File(name, <<"GPU">>, <<>>, TRUE)}
      [] name = NotesMd ->
           {File(name, <<>>, <<>>, FALSE), File(name, <<"Build", "all", "platform">>, <<>>, TRUE),
            File(name, <<"build", "\n", "platform">>, <<"QCity">>, TRUE)}
      [] OTHER ->
           {File(name, <<"Build", "all", "platform">>, <<>>, TRUE),
            File(name, <<"GPU">>, <<>>, TRUE)}

DocNames == {AndroidBuildMd, NotesMd, CiYaml}

\* The directory trees: a set of files with distinct names.
Roots ==
    {d \in SUBSET (UNION {DocChoices(n) : n \in DocNames}) :
        \A f, g \in d : f.name = g.name => f = g}

NoFile == [exists |-> FALSE, data |-> <<>>]

RECURSIVE FileText(_)
FileText(data) == IF data = <<>> THEN <<>> ELSE DumpText(Head(data)) \o FileText(Tail(data))

\* Everything under the root, .qmoi/runner_manifest.json included.
Tree ==
    IF rootState = "missing" THEN {}
    ELSE docs \cup (IF manifestFile.exists
                    THEN {File(ManifestName, FileText(manifestFile.data), <<>>, TRUE)}
                    ELSE {})

\* root.rglob(pattern): the files whose name ends as the pattern says, in
\* whatever order the directories list them.  A missing root yields nothing.
Rglob(tree, ext) == Orderings({f \in tree : f.name[Len(f.name)] = ext})

ScanPatternsWithJson == <<".md", ".yml", ".yaml", ".json">>

\* The three patterns of scan_files, in the order it globs them.
ScanPatterns == <<".md", ".yml", ".yaml">>

RECURSIVE ScanFrom(_, _)
ScanFrom(tree, i) ==
    IF i > Len(ScanPatterns) THEN {<<>>}
    ELSE {a \o b : a \in Rglob(tree, ScanPatterns[i]), b \in ScanFrom(tree, i + 1)}

\* scan_files(root): the lists it may return.
scan_files(tree) == ScanFrom(tree, 1)

FsState == [rootState |-> rootState, qmoiDir |-> qmoiDir, manifestFile |-> manifestFile]

\* ------------------------------------------------------------------- main

NoArgs == [runner_id |-> NoneVal, tags |-> <<>>, apply |-> FALSE]

\* lines 72-79: the command line is parsed and the root resolved (resolve()
\* is not strict: a root that does not exist is no error).
MainStart(rid, tags, apply) ==
    /\ pc \in {"idle", "done", "failed"}
    /\ runs < MaxRuns
    /\ runs' = runs + 1
    /\ args' = [runner_id |-> rid, tags |-> tags, apply |-> apply]
    /\ pc' = "scan"
    /\ files' = <<>>
    /\ caps' = <<>>
    /\ manifest' = NoManifest
    /\ stdout' = <<>>
    /\ startFs' = FsState
    /\ prevFile' = NoFile
    /\ UNCHANGED <<rootState, docs, qmoiDir, manifestFile, clock, setBacks,
                   stampSetBacks, fileSetBacks, prevSetBacks, firstCaps, notesVars>>

\* line 80: files = scan_files(root)
MainScan ==
    /\ pc = "scan"
    /\ \E fs \in scan_files(Tree) : files' = fs
    /\ pc' = "detect"
    /\ UNCHANGED <<rootState, docs, qmoiDir, manifestFile, clock, setBacks, args, caps,
                   manifest, stdout, runs, startFs, prevFile, stampSetBacks,
                   fileSetBacks, prevSetBacks, firstCaps, notesVars>>

\* line 81: caps = detect_capabilities(files)
MainDetect ==
    /\ pc = "detect"
    /\ LET r == detect_capabilities(files)
       IN  IF r.raised
           THEN pc' = "failed" /\ UNCHANGED <<caps, firstCaps>>
           ELSE /\ pc' = "build"
                /\ caps' = r.caps
                /\ firstCaps' = IF runs = 1 THEN r.caps ELSE firstCaps
    /\ UNCHANGED <<rootState, docs, qmoiDir, manifestFile, clock, setBacks, args, files,
                   manifest, stdout, runs, startFs, prevFile, stampSetBacks,
                   fileSetBacks, prevSetBacks, notesVars>>

\* lines 83-86: runner_id, tags, manifest
MainBuild ==
    /\ pc = "build"
    /\ manifest' = build_manifest(RunnerIdOrHost(args.runner_id), ParseTags(args.tags),
                                  caps, clock)
    /\ stampSetBacks' = setBacks
    /\ pc' = "output"
    /\ UNCHANGED <<rootState, docs, qmoiDir, manifestFile, clock, setBacks, args, files,
                   caps, stdout, runs, startFs, prevFile, fileSetBacks, prevSetBacks,
                   firstCaps, notesVars>>

\* Lines 88-96 with both branches taken.
MainOutputBoth ==
    /\ pc = "output"
    /\ stdout' = stdout \o << [kind |-> "caps", val |-> caps],
                              [kind |-> "wrote", val |-> ManifestName],
                              [kind |-> "json", val |-> Dumps(manifest)] >>
    /\ rootState' = "ok"
    /\ qmoiDir' = TRUE
    /\ prevFile' = manifestFile
    /\ prevSetBacks' = fileSetBacks
    /\ manifestFile' = [exists |-> TRUE, data |-> WriteText(manifestFile.data, Dumps(manifest))]
    /\ fileSetBacks' = stampSetBacks
    /\ pc' = "done"
    /\ UNCHANGED <<docs, clock, setBacks, args, files, caps, manifest, runs, startFs,
                   stampSetBacks, firstCaps, notesVars>>

\* lines 88-96: the capabilities are printed; then with --apply .qmoi is made
\* (with its parents) and the manifest written, without it the manifest is
\* printed.
MainOutput ==
    /\ pc = "output"
    /\ IF args.apply
       THEN /\ rootState' = "ok"
            /\ qmoiDir' = TRUE
            /\ prevFile' = manifestFile
            /\ prevSetBacks' = fileSetBacks
            /\ manifestFile' =
                   [exists |-> TRUE, data |-> WriteText(manifestFile.data, Dumps(manifest))]
            /\ fileSetBacks' = stampSetBacks
            /\ stdout' = stdout \o << [kind |-> "caps", val |-> caps],
                                      [kind |-> "wrote", val |-> ManifestName] >>
       ELSE /\ stdout' = stdout \o << [kind |-> "caps", val |-> caps],
                                      [kind |-> "json", val |-> Dumps(manifest)] >>
            /\ UNCHANGED <<rootState, qmoiDir, manifestFile, prevFile, prevSetBacks,
                           fileSetBacks>>
    /\ pc' = "done"
    /\ UNCHANGED <<docs, clock, setBacks, args, files, caps, manifest, runs, startFs,
                   stampSetBacks, firstCaps, notesVars>>

\* ---------------------------------------------------------- the wall clock

\* The clock is read at line 66 only, so it is enough to let it move when
\* main is about to read it: a move at any other time commutes with main's steps.

\* time.time() reads later.
Tick ==
    /\ pc = "build"
    /\ clock < MaxClock
    /\ clock' = clock + 1
    /\ UNCHANGED <<rootState, docs, qmoiDir, manifestFile, setBacks, pc, args, files, caps,
                   manifest, stdout, runs, startFs, prevFile, stampSetBacks,
                   fileSetBacks, prevSetBacks, firstCaps, notesVars>>

\* The system clock is set back (time.time() is not monotonic).
ClockSetBack ==
    /\ pc = "build"
    /\ clock > 0
    /\ setBacks < MaxSetBacks
    /\ \E t \in 0..(clock - 1) : clock' = t
    /\ setBacks' = setBacks + 1
    /\ UNCHANGED <<rootState, docs, qmoiDir, manifestFile, pc, args, files, caps,
                   manifest, stdout, runs, startFs, prevFile, stampSetBacks,
                   fileSetBacks, prevSetBacks, firstCaps, notesVars>>

\* ------------------------------------------------- the accessor stubs

\* qmoi_avatars.get_notes and qmoi_doit.get_notes read the same file.
Stubs == {"avatars", "doit"}

NoDoc == [exists |-> FALSE, text |-> <<>>]

DocAlphabet == {"a", "\r", "\n"}

RECURSIVE UniversalNewlines(_)
\* Text mode with newline=None: "\r\n" and a lone "\r" are read as "\n".
UniversalNewlines(t) ==
    IF t = <<>> THEN <<>>
    ELSE IF Head(t) = "\r"
         THEN <<"\n">> \o UniversalNewlines(IF Len(t) >= 2 /\ t[2] = "\n"
                                            THEN Tail(Tail(t)) ELSE Tail(t))
         ELSE <<Head(t)>> \o UniversalNewlines(Tail(t))

\* p.read_text(encoding='utf-8'): the text, or FileNotFoundError.
ReadText(file) ==
    IF file.exists THEN [raised |-> FALSE, text |-> UniversalNewlines(file.text)]
                   ELSE [raised |-> TRUE, text |-> <<>>]

\* lines 9-10 and 12: if p.exists(): ... ; return ''
NotesExists(s) ==
    /\ notesPc[s] \in {"idle", "returned", "raised"}
    /\ IF docFile.exists
       THEN /\ notesPc' = [notesPc EXCEPT ![s] = "checked"]
            /\ notesResult' = [notesResult EXCEPT ![s] = <<>>]
            /\ notesRead' = [notesRead EXCEPT ![s] = NoDoc]
       ELSE /\ notesPc' = [notesPc EXCEPT ![s] = "returned"]
            /\ notesResult' = [notesResult EXCEPT ![s] = <<>>]
            /\ notesRead' = [notesRead EXCEPT ![s] = NoDoc]
    /\ UNCHANGED <<docFile, genVars>>

\* line 11: return p.read_text(encoding='utf-8')
NotesReadText(s) ==
    /\ notesPc[s] = "checked"
    /\ LET r == ReadText(docFile)
       IN  /\ notesPc' = [notesPc EXCEPT ![s] = IF r.raised THEN "raised" ELSE "returned"]
           /\ notesResult' = [notesResult EXCEPT ![s] = r.text]
           /\ notesRead' = [notesRead EXCEPT ![s] = docFile]
    /\ UNCHANGED <<docFile, genVars>>

\* The conversion pipeline, or anyone, writes the documentation file.
DocWrite(text) ==
    /\ docFile' = [exists |-> TRUE, text |-> text]
    /\ UNCHANGED <<notesPc, notesResult, notesRead, genVars>>

\* The documentation file is removed.
DocRemove ==
    /\ docFile.exists
    /\ docFile' = NoDoc
    /\ UNCHANGED <<notesPc, notesResult, notesRead, genVars>>

\* -------------------------------------------------------- specifications

\* The command lines tried with every root: neither --runner-id nor --tags,
\* and --runner-id qcity-001 --tags a,,b; each with and without --apply.
CmdLines ==
    {[runner_id |-> NoneVal, tags |-> <<>>],
     [runner_id |-> <<"qcity-001">>, tags |-> <<"a", ",", ",", "b">>]}

TagAlphabet == {"a", "b", ",", " "}

GenIdle ==
    /\ qmoiDir = FALSE
    /\ manifestFile = NoFile
    /\ clock = 0
    /\ setBacks = 0
    /\ pc = "idle"
    /\ args = NoArgs
    /\ files = <<>>
    /\ caps = <<>>
    /\ manifest = NoManifest
    /\ stdout = <<>>
    /\ runs = 0
    /\ startFs = [rootState |-> rootState, qmoiDir |-> FALSE, manifestFile |-> NoFile]
    /\ prevFile = NoFile
    /\ stampSetBacks = 0
    /\ fileSetBacks = 0
    /\ prevSetBacks = 0
    /\ firstCaps = <<>>

NotesIdle ==
    /\ notesPc = [s \in Stubs |-> "idle"]
    /\ notesResult = [s \in Stubs |-> <<>>]
    /\ notesRead = [s \in Stubs |-> NoDoc]

\* The generator, run up to MaxRuns times on any root, under a wall clock.
Init ==
    /\ rootState \in {"ok", "missing"}
    /\ docs \in Roots
    /\ rootState = "missing" => docs = {}
    /\ GenIdle
    /\ docFile = NoDoc
    /\ NotesIdle

Next ==
    \/ \E c \in CmdLines, apply \in BOOLEAN : MainStart(c.runner_id, c.tags, apply)
    \/ MainScan
    \/ MainDetect
    \/ MainBuild
    \/ MainOutput
    \/ Tick
    \/ ClockSetBack

Spec == Init /\ [][Next]_vars

\* One invocation of the generator with any --tags argument, on a root with
\* a readable and an unreadable file.
InitTags ==
    /\ rootState = "ok"
    /\ docs = {File(AndroidBuildMd, <<"GPU">>, <<>>, TRUE), File(NotesMd, <<>>, <<>>, FALSE)}
    /\ GenIdle
    /\ docFile = NoDoc
    /\ NotesIdle

NextTags ==
    \/ \E tags \in SeqsUpTo(TagAlphabet, MaxTagLen), apply \in BOOLEAN :
           runs = 0 /\ MainStart(NoneVal, tags, apply)
    \/ MainScan
    \/ MainDetect
    \/ MainBuild
    \/ MainOutput

SpecTags == InitTags /\ [][NextTags]_vars

\* The two stubs called any number of times while the documentation file is
\* written and removed.
InitNotes ==
    /\ rootState = "ok"
    /\ docs = {}
    /\ GenIdle
    /\ docFile \in {NoDoc} \cup {[exists |-> TRUE, text |-> t] : t \in SeqsUpTo(DocAlphabet, MaxDocLen)}
    /\ NotesIdle

NextNotes ==
    \/ \E s \in Stubs : NotesExists(s)
    \/ \E s \in Stubs : NotesReadText(s)
    \/ \E t \in SeqsUpTo(DocAlphabet, MaxDocLen) : DocWrite(t)
    \/ DocRemove

SpecNotes == InitNotes /\ [][NextNotes]_vars

\* ------------------------------------------------------------- properties

\* main has caps (line 81 has run in this invocation).
Detected == pc \in {"build", "output", "done"}

\* main has manifest (line 86 has run in this invocation).
Built == pc \in {"output", "done"}

Printed(kind) == {i \in DOMAIN stdout : stdout[i].kind = kind}

ReadableOf(fs) == {f \in Range(fs) : f.ok}

\* C1: the list detect_capabilities returns is strictly ascending in
\* Python's order of str (sorted, no label twice), holds only labels of
\* CAPABILITY_MAP, and is the capabilities field of the manifest main builds.
C1_CapsSortedUniqueFromTable ==
    /\ Detected =>
          /\ \A i, j \in DOMAIN caps : i < j => StrLess(caps[i], caps[j])
          /\ \A i, j \in DOMAIN caps : i # j => caps[i] # caps[j]
          /\ Range(caps) \subseteq Labels
    /\ Built => manifest.capabilities = caps

C1_Witness ==
    /\ pc = "done"
    /\ Len(caps) >= 4
    /\ \E f \in Range(files) : ~f.ok
    /\ manifest.capabilities = <<"android-build", "build", "build-all-platforms", "gpu">>

\* C2: detect_capabilities returns the same list for every reordering of
\* the file list it was given.
C2_OrderIndependent ==
    pc = "detect" =>
        \A q \in Orderings(Range(files)) : detect_capabilities(q) = detect_capabilities(files)

C2_Witness ==
    /\ pc = "detect"
    /\ Len(files) = 3
    /\ \E f \in Range(files) : ~f.ok
    /\ \E f, g \in ReadableOf(files) : FileCaps(f) # FileCaps(g)

\* C3 as claimed: whenever the scanned files include one named
\* android-build.md, readable or not, the capabilities include
\* "android-build" and "build".
C3_AndroidBuildMdAnyReadability ==
    Detected /\ (\E f \in Range(files) : f.name = AndroidBuildMd) =>
        {"android-build", "build"} \subseteq Range(caps)

\* C3 amended: whenever the scanned files include a readable file named
\* android-build.md, the capabilities include "android-build" and "build",
\* in whatever order the files are scanned.
C3_ReadableAndroidBuildMd ==
    (\E f \in Range(files) : f.name = AndroidBuildMd /\ f.ok) =>
        /\ Detected => {"android-build", "build"} \subseteq Range(caps)
        /\ pc = "detect" =>
               \A q \in Orderings(Range(files)) :
                   {"android-build", "build"} \subseteq Range(detect_capabilities(q).caps)

C3_Witness ==
    /\ pc = "done"
    /\ \E f \in Range(files) : f.name = AndroidBuildMd /\ f.ok /\ f.head = <<>>
    /\ \E f \in Range(files) : ~f.ok
    /\ caps = <<"android-build", "build">>

\* C4: a read failure never makes main fail in detect_capabilities, the
\* unreadable files contribute nothing, and the capabilities are exactly the
\* labels matched by the readable files, wherever they stand in the list.
C4_ReadFailureNeverAborts ==
    /\ pc # "failed"
    /\ Detected => Range(caps) = UNION {FileCaps(f) : f \in ReadableOf(files)}

C4_Witness ==
    /\ pc = "done"
    /\ Len(files) = 3
    /\ files[1].ok /\ ~files[2].ok /\ files[3].ok
    /\ ~(FileCaps(files[3]) \subseteq FileCaps(files[1]))
    /\ ~(FileCaps(files[1]) \subseteq FileCaps(files[3]))

\* C5: a completed invocation with --apply has written its manifest, and
\* nothing else, to .qmoi/runner_manifest.json (the directory and its parents
\* exist) and has not printed the manifest; one without --apply has printed
\* the manifest once and left the file system as it found it.
C5_ExactlyOneSink ==
    pc = "done" =>
        IF args.apply
        THEN /\ manifestFile = [exists |-> TRUE, data |-> <<Dumps(manifest)>>]
             /\ qmoiDir /\ rootState = "ok"
             /\ Printed("json") = {}
             /\ Cardinality(Printed("wrote")) = 1
        ELSE /\ Cardinality(Printed("json")) = 1
             /\ \A i \in Printed("json") : stdout[i].val = Dumps(manifest)
             /\ Printed("wrote") = {}
             /\ FsState = startFs

C5_Witness ==
    /\ pc = "done"
    /\ runs = 2
    /\ ~args.apply
    /\ manifestFile.exists
    /\ manifestFile.data # <<Dumps(manifest)>>
    /\ Cardinality(Printed("json")) = 1

\* C6 as claimed: an invocation whose --root names no directory does not
\* complete, prints no manifest and creates no .qmoi/runner_manifest.json.
C6_MissingRootIsFatal ==
    pc # "idle" /\ startFs.rootState = "missing" =>
        /\ pc # "done"
        /\ Printed("json") = {}
        /\ ~manifestFile.exists

\* C7 as claimed: after a second --apply run the file holds the second
\* manifest only, and its generated_at is not below that of the manifest the
\* file held before.
C7_SecondRunNotEarlier ==
    pc = "done" /\ args.apply /\ prevFile.exists =>
        /\ manifestFile.data = <<Dumps(manifest)>>
        /\ manifest.generated_at >= prevFile.data[Len(prevFile.data)].json.generated_at

\* C7 amended: after a second --apply run the file holds the second manifest
\* only, and its generated_at is not below that of the manifest the file
\* held before unless the system clock was set back between the two stamps.
C7_SecondRunNotEarlierUnlessSetBack ==
    pc = "done" /\ args.apply /\ prevFile.exists =>
        /\ manifestFile.data = <<Dumps(manifest)>>
        /\ prevSetBacks = fileSetBacks =>
               manifest.generated_at >= prevFile.data[Len(prevFile.data)].json.generated_at

C7_Witness ==
    /\ pc = "done" /\ args.apply /\ prevFile.exists
    /\ prevSetBacks = fileSetBacks
    /\ prevFile.data[1].json.tags # manifest.tags
    /\ manifest.generated_at > prevFile.data[1].json.generated_at
    /\ manifestFile.data = <<Dumps(manifest)>>

\* C8 as claimed: get_notes never raises because the documentation file is
\* missing, whatever happens to the file during the call; it returns.
C8_NotesNeverRaise == \A s \in Stubs : notesPc[s] # "raised"

\* The rest of C8: what get_notes returns is the text of the file as
\* read_text found it, untransformed, or the empty string when it was absent.
NotesReturnFileText ==
    \A s \in Stubs :
        notesPc[s] = "returned" =>
            notesResult[s] = (IF notesRead[s].exists THEN notesRead[s].text ELSE <<>>)

\* ---- the entries of a --tags argument, by position

Cuts(s) == {0} \cup {i \in 1..Len(s) : s[i] = ","} \cup {Len(s) + 1}

\* <<lo, hi>>: the entry lies strictly between two neighbouring cuts.
EntrySpans(s) ==
    {sp \in Cuts(s) \X Cuts(s) : sp[1] < sp[2] /\ ~\E c \in Cuts(s) : sp[1] < c /\ c < sp[2]}

Inked(s, sp) == {i \in (sp[1] + 1)..(sp[2] - 1) : s[i] \notin Whitespace}

KeptSpans(s) == {sp \in EntrySpans(s) : Inked(s, sp) # {}}

KeptBefore(s, sp) == Cardinality({q \in KeptSpans(s) : q[1] < sp[1]})

Entry(s, sp) == SubSeq(s, sp[1] + 1, sp[2] - 1)

Trimmed(s, sp) ==
    LET ink == Inked(s, sp)
        lo == CHOOSE i \in ink : \A j \in ink : i <= j
        hi == CHOOSE i \in ink : \A j \in ink : i >= j
    IN  SubSeq(s, lo, hi)

\* C9 as claimed: the tags of the manifest are the comma-separated entries
\* of --tags, in order, as they stand, less the empty and whitespace-only
\* ones.
C9_TagsAreEntries ==
    Built =>
        /\ Len(manifest.tags) = Cardinality(KeptSpans(args.tags))
        /\ \A sp \in KeptSpans(args.tags) :
               manifest.tags[KeptBefore(args.tags, sp) + 1] = Entry(args.tags, sp)

\* C9 amended: the tags of the manifest are the comma-separated entries of
\* --tags, in order, each with its leading and trailing whitespace removed,
\* less the empty and whitespace-only ones; no tag is empty, and no --tags
\* gives no tags.
C9_TagsAreTrimmedEntries ==
    Built =>
        /\ Len(manifest.tags) = Cardinality(KeptSpans(args.tags))
        /\ \A sp \in KeptSpans(args.tags) :
               manifest.tags[KeptBefore(args.tags, sp) + 1] = Trimmed(args.tags, sp)
        /\ \A i \in DOMAIN manifest.tags : manifest.tags[i] # <<>>
        /\ args.tags = <<>> => manifest.tags = <<>>

C9_Witness ==
    /\ pc = "done"
    /\ Len(manifest.tags) = 2
    /\ \E sp \in EntrySpans(args.tags) \ KeptSpans(args.tags) : sp[2] <= Len(args.tags)
    /\ \E sp \in KeptSpans(args.tags) : Trimmed(args.tags, sp) # Entry(args.tags, sp)

\* C10: .qmoi/runner_manifest.json is never among the scanned files, and
\* every later invocation on the root finds the capabilities the first found.
C10_NoFeedback ==
    /\ pc # "idle" /\ pc # "scan" => \A f \in Range(files) : f.name # ManifestName
    /\ Detected /\ runs >= 2 => caps = firstCaps

C10_Witness ==
    /\ pc = "done"
    /\ runs >= 2
    /\ startFs.manifestFile.exists
    /\ args.apply
    /\ caps # <<>>
    /\ caps = firstCaps

====
